---- MODULE Spec2Model ----
(***************************************************************************)
(* Model of the wikipedizer_9000 aggregation pipeline:                     *)
(*   src/app.py            ProgressTracker, WebScraper, run_scrape_job,    *)
(*                         start_scrape, get_progress, cleanup_job         *)
(*   src/astro_scraper.py  source adapters, cache, AstronomyScraper        *)
(* A dict is modelled as a sequence of <<key, value>> pairs (insertion     *)
(* order) or, for the process-wide tables, as a function on its key set.   *)
(***************************************************************************)
EXTENDS Integers, Sequences, FiniteSets, TLC

VARIABLES
    jobs,        \* app.py:224  job id -> registry entry
    job_queues,  \* app.py:225  the job ids that have a Queue in the table
    queue,       \* the Queue objects, by the job id they were created for
    worker,      \* per job id: the state of the thread running run_scrape_job
    cache,       \* .cache directory: <<topic, source>> -> record content
    disk,        \* per job id: the output directory of the job
    observer,    \* per observer: the state of one get_progress generator
    response,    \* the reply to the last POST /api/scrape
    stream,      \* history: every event ever put on the queue created for a job
    fetchLog,    \* history: per job, the adapter calls made and their outcome
    topicLog,    \* history: per job, the TopicResult of every finished topic and
                 \* the index in stream of the first event put after it finished
    nextJob,     \* number of job ids issued so far
    faults,      \* number of injected I/O failures so far
    cli,         \* the state of one AstronomyScraper.scrape_all run
    now,         \* the wall clock, in seconds
    parse        \* one call of WikipediaSource.get_article: the page and the result

vars == <<jobs, job_queues, queue, worker, cache, disk, observer, response, stream,
          fetchLog, topicLog, nextJob, faults, cli, now, parse>>

\* ------------------------------------------------------------------ bounds
MaxJobs == 2
MaxTopics == 2
MaxObservers == 1
MaxHeartbeats == 1
MaxFaults == 1
MaxWork == 8
MaxTime == 1
MaxElems == 4
MaxReaders == 2       \* progress queries open at once on one job

JobIds == 1..MaxJobs
UnknownJob == 0
Observers == 1..MaxObservers

\* ------------------------------------------------------------ small helpers
Range(s) == {s[i] : i \in DOMAIN s}

RECURSIVE SumSeq(_)
SumSeq(s) == IF s = <<>> THEN 0 ELSE Head(s) + SumSeq(Tail(s))

\* dict helpers: a dict is a sequence of <<key, value>> pairs
Keys(d) == {d[i][1] : i \in DOMAIN d}
KeySeq(d) == [i \in DOMAIN d |-> d[i][1]]
Lookup(d, k) == (CHOOSE i \in DOMAIN d : d[i][1] = k)
DictGet(d, k) == d[Lookup(d, k)][2]
\* DictSet putting a new key in front of the others
DictSetFront(d, k, v) ==
    IF k \in Keys(d) THEN [d EXCEPT ![Lookup(d, k)] = <<k, v>>]
    ELSE <<<<k, v>>>> \o d

DictSet(d, k, v) ==
    IF k \in Keys(d) THEN [d EXCEPT ![Lookup(d, k)] = <<k, v>>]
    ELSE Append(d, <<k, v>>)

\* table[key] = entry on one of the process-wide tables
SetJob(table, j, entry) ==
    [k \in DOMAIN table \cup {j} |-> IF k = j THEN entry ELSE table[k]]

\* ------------------------------------------------------------ the adapters
\* astro_scraper.py:556-561, the name -> adapter registry
SOURCES == {"wikipedia", "nasa", "esa", "educational"}

\* app.py:411, the source list used when the request names none
DefaultSources == <<"wikipedia", "nasa", "esa", "educational">>

\* astro_scraper.py:322
ExcludedHeadings ==
    {"see also", "references", "external links", "notes", "further reading"}

\* str.lower() on the heading texts the pages of the model use
Lower(t) ==
    CASE t = "References" -> "references"
      [] t = "REFERENCES" -> "references"
      [] t = "See also" -> "see also"
      [] t = "History" -> "history"
      [] OTHER -> t

\* BaseSource.clean_text on the paragraph texts the pages of the model use:
\* citation markers removed, whitespace collapsed, stripped
clean_text(t) ==
    CASE t = "a[1]" -> "a"
      [] t = "[1]" -> ""
      [] t = "b  b" -> "b b"
      [] OTHER -> t

\* One element of content_div.find_all([...]) in document order:
\*   name  "h2" | "p" | "ul"      text  the element's stripped text
\*   skip  TRUE when the element sits inside an infobox/navbox/metadata box
Elem(name, text, skip) == [name |-> name, text |-> text, skip |-> skip]

\* astro_scraper.py:308-348, one iteration of the element loop.
\* st = [sections, current]; current = [heading, content], heading "None"
\* stands for Python's None.
WikiStep(st, elem) ==
    IF elem.skip THEN st
    ELSE IF elem.name = "h2" THEN
        LET closed == IF st.current.content # <<>>
                      THEN Append(st.sections, st.current)
                      ELSE st.sections
        IN IF Lower(elem.text) \in ExcludedHeadings
           THEN [sections |-> closed,
                 current |-> [heading |-> "None", content |-> <<>>]]
           ELSE [sections |-> closed,
                 current |-> [heading |-> elem.text, content |-> <<>>]]
    ELSE IF elem.name \in {"p", "ul"} /\ st.current.heading # "None" THEN
        IF elem.text # ""
        THEN [st EXCEPT !.current.content =
                 Append(@, IF elem.name = "p" THEN clean_text(elem.text)
                           ELSE "  * " \o clean_text(elem.text))]
        ELSE st
    ELSE st

RECURSIVE WikiLoop(_, _)
WikiLoop(st, page) ==
    IF page = <<>> THEN st ELSE WikiLoop(WikiStep(st, Head(page)), Tail(page))

\* astro_scraper.py:305-352: the sections list built from the page
WikiSections(page) ==
    LET st == WikiLoop([sections |-> <<>>,
                        current |-> [heading |-> "Overview", content |-> <<>>]],
                       page)
    IN IF st.current.content # <<>> /\ st.current.heading \notin {"None", ""}
       THEN Append(st.sections, st.current)
       ELSE st.sections

\* What the HTTP fetch of a topic's page gave the adapter:
\*   [kind |-> "none"]                 fetch failed / no content container
\*   [kind |-> "page", body |-> ...]   the parsed page
\*   [kind |-> "raise", exc |-> ...]   the adapter raised exc
NoPage == [kind |-> "none"]
Raise(exc) == [kind |-> "raise", exc |-> exc]

\* Python's None (the adapter's absence signal, a cache miss)
None == [none |-> TRUE]

\* A Document
Document(source, sections) == [source |-> source, sections |-> sections]

\* astro_scraper.py:284-360  WikipediaSource.get_article
WikipediaGetArticle(topic, fetched) ==
    IF fetched.kind = "none" THEN None
    ELSE Document("Wikipedia", WikiSections(fetched.body))

\* astro_scraper.py:406  the candidate container selectors, in order
NASASelectors == <<"article", "main", ".content", ".wysiwyg-content", "#main-content">>

\* soup.select_one(selector) on a page of the model: a page is one entry per
\* selector, [found |-> FALSE] when nothing matches it, else the stripped
\* texts of the container's paragraphs in document order
Missing == [found |-> FALSE, paragraphs |-> <<>>]
Container(paragraphs) == [found |-> TRUE, paragraphs |-> paragraphs]

\* astro_scraper.py:410-412  the paragraphs of a container that pass
\* 'text and len(text) > 50', cleaned
Qualifying(paragraphs) ==
    LET kept == SelectSeq(paragraphs, LAMBDA text : text # "" /\ Len(text) > 50)
    IN [i \in DOMAIN kept |-> clean_text(kept[i])]

\* astro_scraper.py:406-413  the selector loop: the first selector that
\* matches a container ends the loop, whatever its paragraphs gave
NASAContent(page) ==
    LET found == {i \in DOMAIN page : page[i].found}
    IN IF found = {} THEN <<>>
       ELSE Qualifying(page[CHOOSE i \in found : \A k \in found : i <= k].paragraphs)

\* astro_scraper.py:385-429  NASASource.get_article; fetched.body is the
\* list of cleaned paragraphs longer than 50 characters of the first
\* container found
NASAGetArticle(topic, fetched) ==
    IF fetched.kind = "none" THEN None
    ELSE IF fetched.body = <<>> THEN None
    ELSE Document("NASA", <<[heading |-> "NASA Overview", content |-> fetched.body]>>)

\* astro_scraper.py:438-485  ESASource.get_article
ESAGetArticle(topic, fetched) ==
    IF fetched.kind = "none" THEN None
    ELSE IF fetched.body = <<>> THEN None
    ELSE Document("ESA", <<[heading |-> "ESA Article", content |-> fetched.body]>>)

\* astro_scraper.py:506-544  EducationalSource.get_article
EducationalGetArticle(topic, fetched) ==
    IF fetched.kind = "none" THEN None
    ELSE IF fetched.body = <<>> THEN None
    ELSE Document("Educational",
                  <<[heading |-> "Educational Overview", content |-> fetched.body]>>)

\* self.sources[source_name].get_article(topic)
get_article(source_name, topic, fetched) ==
    CASE source_name = "wikipedia" -> WikipediaGetArticle(topic, fetched)
      [] source_name = "nasa" -> NASAGetArticle(topic, fetched)
      [] source_name = "esa" -> ESAGetArticle(topic, fetched)
      [] source_name = "educational" -> EducationalGetArticle(topic, fetched)

\* How an adapter call ended: "raised", "absent" (None) or "document"
Outcome(source_name, topic, fetched) ==
    IF fetched.kind = "raise" THEN "raised"
    ELSE IF get_article(source_name, topic, fetched) = None THEN "absent"
    ELSE "document"

\* Python truthiness of get_article's result and of a value loaded from the
\* cache: None and an empty list are falsy, a non-empty dict (any Document)
\* and a non-empty list are truthy
Truthy(data) == data \notin {None, [array |-> 0]}

\* The pages a Wikipedia fetch can give in the model
WikiPages ==
    { <<Elem("p", "a[1]", FALSE), Elem("h2", "History", FALSE), Elem("p", "b  b", FALSE)>>,
      <<Elem("h2", "References", FALSE), Elem("p", "r", FALSE)>>,
      <<Elem("p", "", FALSE)>> }

\* The outcomes of fetching a topic's page, per adapter
Fetched(source_name) ==
    IF source_name = "wikipedia"
    THEN {NoPage, Raise("RequestException"), Raise("RecursionError")}
         \cup {[kind |-> "page", body |-> p] : p \in WikiPages}
    ELSE {NoPage, Raise("RequestException"), Raise("RecursionError"),
          [kind |-> "page", body |-> <<"long paragraph">>],
          [kind |-> "page", body |-> <<>>]}

\* ------------------------------------------------------- submitted input
\* A category's value in the submitted mapping: a bare topic list, or a
\* dict with the given keys (topics is read only when "topics" is a key)
BareList(topics) == [isdict |-> FALSE, keys |-> {}, topics |-> topics]
DictData(keys, topics) == [isdict |-> TRUE, keys |-> keys, topics |-> topics]

TopicNames == <<"X", "Y", "Z", "W">>
TopicList(n) == [i \in 1..n |-> TopicNames[i]]

\* app.py:329 and :357  len(data.get("topics", data) if isinstance(data, dict) else data)
CountOf(data) ==
    IF data.isdict
    THEN IF "topics" \in data.keys THEN Len(data.topics) ELSE Cardinality(data.keys)
    ELSE Len(data.topics)

\* app.py:346-349  the topics the category loop walks
TopicsOf(data) ==
    IF data.isdict
    THEN IF "topics" \in data.keys THEN data.topics ELSE <<>>
    ELSE data.topics

\* TotalTopics counting the categories instead of their topics
TotalTopicsOfCategories(categories) == Len(categories)

\* app.py:328-331
TotalTopics(categories) ==
    SumSeq([i \in DOMAIN categories |-> CountOf(categories[i][2])])

\* The first (category, topic) position at or after (ci, ti) that holds a
\* topic; <<0, 0>> when the category loop of app.py:345-351 is over
RECURSIVE NextPos(_, _, _)
NextPos(categories, ci, ti) ==
    IF ci > Len(categories) THEN <<0, 0>>
    ELSE IF ti <= Len(TopicsOf(categories[ci][2])) THEN <<ci, ti>>
    ELSE NextPos(categories, ci + 1, 1)

\* The first index at or after si of a source the registry knows
\* (app.py:272-274, astro_scraper.py:599-601); 0 when the loop is over
RECURSIVE NextSource(_, _)
NextSource(sources, si) ==
    IF si > Len(sources) THEN 0
    ELSE IF sources[si] \in SOURCES THEN si
    ELSE NextSource(sources, si + 1)

\* ------------------------------------------------------- ProgressTracker
\* app.py:231-239
NewTracker ==
    [total_topics |-> 0, completed_topics |-> 0, current_topic |-> "",
     current_source |-> "", status |-> "initializing", files |-> <<>>]

\* app.py:254  the progress value as the exact fraction <<numerator, denominator>>
Percent(completed, total) ==
    IF total > 0 THEN <<completed * 100, total>> ELSE <<0, 1>>

\* app.py:246-256
to_dict(job_id, p) ==
    [job_id |-> job_id,
     total_topics |-> p.total_topics,
     completed_topics |-> p.completed_topics,
     current_topic |-> p.current_topic,
     current_source |-> p.current_source,
     status |-> p.status,
     progress |-> Percent(p.completed_topics, p.total_topics),
     files_count |-> Len(p.files)]

\* ErrorEvent with a status observers do not know
ErrorEventFailed(job_id, msg) == [job_id |-> job_id, status |-> "failed", error |-> msg]

\* app.py:372  the event the except branch puts on the queue
ErrorEvent(job_id, msg) == [job_id |-> job_id, status |-> "error", error |-> msg]

\* queue.put(event): the queue object of job j gets the event
Put(j, events) ==
    /\ queue' = [queue EXCEPT ![j] = @ \o events]
    /\ stream' = [stream EXCEPT ![j] = @ \o events]

\* ------------------------------------------------------------- the cache
\* astro_scraper.py:570-573  the cache file of a (topic, source) pair
get_cache_path(topic, source) == <<topic, source>>

\* The content of a cache file.  json.dump(data, f) leaves the text of data:
JsonText(data) == [text |-> "json", value |-> data]
\* a file opened with mode 'w' whose text is not, or not yet, all written
Partial == [text |-> "partial"]
\* a file whose bytes are not UTF-8
NotUtf8 == [text |-> "not_utf8"]
\* the JSON value of a file holding an array of n numbers, not a Document
JsonArray(n) == [array |-> n]

\* astro_scraper.py:580-581  json.load(f) on a file with this content
json_load(record) ==
    CASE record.text = "json" -> record.value
      [] record.text = "partial" -> Raise("JSONDecodeError")
      [] record.text = "not_utf8" -> Raise("UnicodeDecodeError")

\* astro_scraper.py:582  the exceptions _load_from_cache swallows
LoadCaught == {"JSONDecodeError", "IOError", "OSError"}

\* astro_scraper.py:575-584  the value returned, or the exception that
\* leaves _load_from_cache
load_from_cache(topic, source) ==
    IF get_cache_path(topic, source) \in DOMAIN cache
    THEN LET r == json_load(cache[get_cache_path(topic, source)])
         IN IF r \in {Raise(exc) : exc \in LoadCaught} THEN None ELSE r
    ELSE None

\* an exception left the call
Raised(r) == "kind" \in DOMAIN r /\ r.kind = "raise"

\* the cache directory with this content in the file of (topic, source)
WriteFile(c, topic, source, record) ==
    [k \in DOMAIN c \cup {get_cache_path(topic, source)} |->
        IF k = get_cache_path(topic, source) THEN record ELSE c[k]]

\* astro_scraper.py:589  open(cache_path, 'w') creates or truncates the file
open_for_write(c, topic, source) == WriteFile(c, topic, source, Partial)

\* save_to_cache leaving the file as it is
save_to_cache_skipped(c, topic, source, data) == c

\* astro_scraper.py:586-593  the cache directory once json.dump has
\* written the text and the file is closed
save_to_cache(c, topic, source, data) == WriteFile(c, topic, source, JsonText(data))

\* ------------------------------------------------------------ the output
\* astro_scraper.py:665  category.replace(" ", "_")
SafeCategory(category) ==
    CASE category = "deep sky" -> "deep_sky"
      [] OTHER -> category

\* astro_scraper.py:670-671
SafeFilename(topic) ==
    CASE topic = "X Y" -> "X_Y"
      [] topic = "X/Y" -> "X_Y"
      [] OTHER -> topic

\* astro_scraper.py:665-672  the artifact's path below the output directory
TopicPath(j, category, topic) == <<j, SafeCategory(category), SafeFilename(topic)>>

\* An output directory: whether it exists, the artifacts in it with their
\* text, and the index pair with the structured manifest
NoDir == [exists |-> FALSE, files |-> {}, text |-> <<>>, index |-> FALSE,
          manifest |-> None]

\* astro_scraper.py:626-660  the text of a topic's artifact, written at time t
generate_text_file(topic, results, category, t) ==
    [topic |-> topic, category |-> category, generated |-> t,
     sources |-> [i \in DOMAIN results |->
                    [source |-> results[i][2].source,
                     sections |-> results[i][2].sections]]]

\* astro_scraper.py:676-678  the artifact directory once filepath holds content
WriteText(text, path, content) ==
    [f \in DOMAIN text \cup {path} |-> IF f = path THEN content ELSE text[f]]

\* app.py:355-360  the structured manifest run_scrape_job hands to _save_index
Manifest(categories, files, t) ==
    [started_at |-> t,
     topics_count |-> [i \in DOMAIN categories |-> CountOf(categories[i][2])],
     total_files |-> Len(files)]

\* ------------------------------------------------------------ the worker
NoWorker ==
    [pc |-> "none", categories |-> <<>>, sources |-> <<>>, progress |-> NewTracker,
     ci |-> 0, ti |-> 0, si |-> 0, results |-> <<>>, data |-> None, error |-> "",
     delays |-> 0, index_at |-> 0]

W(j) == worker[j]
CurCategory(j) == W(j).categories[W(j).ci][1]
CurTopic(j) == TopicsOf(W(j).categories[W(j).ci][2])[W(j).ti]
CurSource(j) == W(j).sources[W(j).si]

\* where run_scrape_job goes once the topic at (ci, ti) is the next to do
AtPos(w, pos) ==
    IF pos = <<0, 0>> THEN [w EXCEPT !.pc = "index", !.ci = 0, !.ti = 0, !.si = 0]
    ELSE [w EXCEPT !.pc = "topic", !.ci = pos[1], !.ti = pos[2], !.si = 0]

\* app.py:326-342  total, the tracker, its first snapshot, the scraper
\* (whose constructor creates the output directory)
WorkerStart(j) ==
    /\ W(j).pc = "start"
    /\ LET p == [NewTracker EXCEPT !.total_topics = TotalTopics(W(j).categories),
                                   !.status = "starting"]
       IN /\ Put(j, <<to_dict(j, p)>>)
          /\ \/ /\ disk' = [disk EXCEPT ![j].exists = TRUE]
                /\ worker' = [worker EXCEPT ![j] =
                      AtPos([W(j) EXCEPT !.progress = p],
                            NextPos(W(j).categories, 1, 1))]
                /\ UNCHANGED faults
             \/ /\ faults < MaxFaults
                /\ faults' = faults + 1
                /\ worker' = [worker EXCEPT ![j] =
                      [W(j) EXCEPT !.progress = p, !.pc = "except", !.error = "OSError"]]
                /\ UNCHANGED disk
    /\ UNCHANGED <<jobs, job_queues, cache, observer, response, fetchLog,
                   topicLog, nextJob, cli, now, parse>>

\* app.py:268-270  fetch_topic's first snapshot and the empty TopicResult
FetchTopicBegin(j) ==
    /\ W(j).pc = "topic"
    /\ LET p == [W(j).progress EXCEPT !.current_topic = CurTopic(j),
                                      !.status = "fetching"]
           si == NextSource(W(j).sources, 1)
       IN /\ Put(j, <<to_dict(j, p)>>)
          /\ worker' = [worker EXCEPT ![j] =
                [W(j) EXCEPT !.progress = p, !.results = <<>>, !.si = si,
                             !.pc = IF si = 0 THEN "finish" ELSE "source"]]
    /\ UNCHANGED <<jobs, job_queues, cache, disk, observer, response, fetchLog,
                   topicLog, nextJob, faults, cli, now, parse>>

\* WebFetch dropping the TopicResult collected so far when the adapter
\* gives no document
WebFetchDropping(results, c, topic, source_name, fetched) ==
    IF fetched.kind = "raise" THEN [results |-> <<>>, cache |-> c, data |-> None]
    ELSE LET data == get_article(source_name, topic, fetched)
         IN IF Truthy(data)
            THEN [results |-> DictSet(results, source_name, data),
                  cache |-> open_for_write(c, topic, source_name), data |-> data]
            ELSE [results |-> <<>>, cache |-> c, data |-> None]

\* app.py:286-297  the adapter call of WebScraper.fetch_topic (every
\* Exception is caught): the TopicResult after it, the cache directory once
\* _save_to_cache has opened the file, and the data it is about to write
WebFetch(results, c, topic, source_name, fetched) ==
    IF fetched.kind = "raise" THEN [results |-> results, cache |-> c, data |-> None]
    ELSE LET data == get_article(source_name, topic, fetched)
         IN IF Truthy(data)
            THEN [results |-> DictSet(results, source_name, data),
                  cache |-> open_for_write(c, topic, source_name), data |-> data]
            ELSE [results |-> results, cache |-> c, data |-> None]

\* Sleep without the delay
SleepSkipped(w) == w

\* app.py:300  time.sleep(self.config.request_delay); delays counts the
\* inter-request delays the worker has taken
Sleep(w) == [w EXCEPT !.delays = @ + 1]

\* the source loop goes on with the next registered source, or ends
NextVisit(w) ==
    LET si == NextSource(w.sources, w.si + 1)
    IN [w EXCEPT !.si = si, !.pc = IF si = 0 THEN "finish" ELSE "source"]

\* app.py:272-283  one iteration of the source loop for a registered
\* source, up to the cache lookup: a hit ends the iteration, a miss goes on
\* to the adapter, an exception leaving _load_from_cache leaves fetch_topic
VisitSource(j) ==
    /\ W(j).pc = "source"
    /\ LET p == [W(j).progress EXCEPT !.current_source = CurSource(j)]
           cached == load_from_cache(CurTopic(j), CurSource(j))
           w == [W(j) EXCEPT !.progress = p]
       IN /\ Put(j, <<to_dict(j, p)>>)
          /\ worker' = [worker EXCEPT ![j] =
                IF Raised(cached) THEN [w EXCEPT !.pc = "except", !.error = cached.exc]
                ELSE IF Truthy(cached)
                THEN NextVisit([w EXCEPT !.results = DictSet(@, CurSource(j), cached)])
                ELSE [w EXCEPT !.pc = "fetch"]]
    /\ UNCHANGED <<jobs, job_queues, cache, disk, observer, response, fetchLog,
                   topicLog, nextJob, faults, cli, now, parse>>

\* app.py:285-300  the same iteration after a miss: the adapter call and,
\* for a document, the opening of its cache file
FetchSource(j) ==
    /\ W(j).pc = "fetch"
    /\ \E fetched \in Fetched(CurSource(j)) :
          LET r == WebFetch(W(j).results, cache, CurTopic(j), CurSource(j), fetched)
          IN /\ worker' = [worker EXCEPT ![j] =
                   IF Truthy(r.data)
                   THEN [W(j) EXCEPT !.results = r.results, !.data = r.data,
                                     !.pc = "write"]
                   ELSE NextVisit(Sleep([W(j) EXCEPT !.results = r.results]))]
             /\ cache' = r.cache
             /\ fetchLog' = [fetchLog EXCEPT ![j] =
                   Append(@, <<CurTopic(j), CurSource(j),
                               Outcome(CurSource(j), CurTopic(j), fetched)>>)]
    /\ UNCHANGED <<jobs, job_queues, queue, disk, observer, response, stream,
                   topicLog, nextJob, faults, cli, now, parse>>

\* astro_scraper.py:590-593  json.dump writes the text and the file is
\* closed, or the write fails and the IOError is swallowed
WriteCache(j) ==
    /\ W(j).pc = "write"
    /\ \/ /\ cache' = save_to_cache(cache, CurTopic(j), CurSource(j), W(j).data)
          /\ UNCHANGED faults
       \/ /\ faults < MaxFaults
          /\ faults' = faults + 1
          /\ UNCHANGED cache
    /\ worker' = [worker EXCEPT ![j] = NextVisit(Sleep([W(j) EXCEPT !.data = None]))]
    /\ UNCHANGED <<jobs, job_queues, queue, disk, observer, response, stream,
                   fetchLog, topicLog, nextJob, cli, now, parse>>

\* CompletedAfter counting only the topics that produced an artifact
CompletedAfterArtifact(completed, results) ==
    IF results # <<>> THEN completed + 1 ELSE completed

\* app.py:317  completed_topics after a topic whose TopicResult is results
CompletedAfter(completed, results) == completed + 1

\* HasSources taking every TopicResult as non-empty
HasSourcesAlways(results) == TRUE

\* app.py:312  if topic_data["sources"]:
HasSources(results) == results # <<>>

\* astro_scraper.py:640-643  generate_text_file calls source_data.get on
\* every entry of the TopicResult: an entry that is not a dict raises
Renders(results) == \A i \in DOMAIN results : "array" \notin DOMAIN results[i][2]

\* app.py:309-319  after fetch_topic returned: the artifact, then the
\* completed_topics snapshot
FinishTopic(j) ==
    /\ W(j).pc = "finish"
    /\ topicLog' = [topicLog EXCEPT ![j] =
          Append(@, [category |-> CurCategory(j), topic |-> CurTopic(j),
                     sources |-> W(j).results, at |-> Len(stream[j]) + 1])]
    /\ \/ LET path == TopicPath(j, CurCategory(j), CurTopic(j))
              files == IF HasSources(W(j).results)
                       THEN Append(W(j).progress.files, path)
                       ELSE W(j).progress.files
              p == [W(j).progress EXCEPT
                       !.files = files,
                       !.completed_topics =
                           CompletedAfter(W(j).progress.completed_topics, W(j).results),
                       !.status = "processing"]
          IN /\ Renders(W(j).results)
             /\ Put(j, <<to_dict(j, p)>>)
             /\ disk' = IF HasSources(W(j).results)
                        THEN [disk EXCEPT
                                ![j].exists = TRUE,
                                ![j].files = @ \cup {path},
                                ![j].text = WriteText(@, path,
                                    generate_text_file(CurTopic(j), W(j).results,
                                                       CurCategory(j), now))]
                        ELSE disk
             /\ worker' = [worker EXCEPT ![j] =
                   AtPos([W(j) EXCEPT !.progress = p],
                         NextPos(W(j).categories, W(j).ci, W(j).ti + 1))]
             /\ UNCHANGED faults
       \/ /\ HasSources(W(j).results)
          /\ faults < MaxFaults
          /\ faults' = faults + 1
          /\ worker' = [worker EXCEPT ![j] =
                [W(j) EXCEPT !.pc = "except", !.error = "OSError"]]
          /\ UNCHANGED <<queue, stream, disk>>
       \/ /\ ~Renders(W(j).results)
          /\ worker' = [worker EXCEPT ![j] =
                [W(j) EXCEPT !.pc = "except", !.error = "AttributeError"]]
          /\ UNCHANGED <<queue, stream, disk, faults>>
    /\ UNCHANGED <<jobs, job_queues, cache, observer, response, fetchLog,
                   nextJob, cli, now, parse>>

\* SaveIndex going on to the complete snapshot when the write failed
SaveIndexUnguarded(j) ==
    /\ W(j).pc = "index"
    /\ \/ /\ disk[j].exists
          /\ disk' = [disk EXCEPT ![j].index = TRUE,
                                  ![j].manifest = Manifest(W(j).categories,
                                                           W(j).progress.files, now)]
          /\ worker' = [worker EXCEPT ![j].pc = "complete",
                                       ![j].index_at = Len(stream[j])]
          /\ UNCHANGED faults
       \/ /\ ~disk[j].exists \/ faults < MaxFaults
          /\ faults' = IF disk[j].exists THEN faults + 1 ELSE faults
          /\ worker' = [worker EXCEPT ![j].pc = "complete",
                                       ![j].index_at = -1]
          /\ UNCHANGED disk
    /\ UNCHANGED <<jobs, job_queues, queue, cache, observer, response, stream,
                   fetchLog, topicLog, nextJob, cli, now, parse>>

\* app.py:354-362 and astro_scraper.py:746-783  the run index and manifest
SaveIndex(j) ==
    /\ W(j).pc = "index"
    /\ \/ /\ disk[j].exists
          /\ disk' = [disk EXCEPT ![j].index = TRUE,
                                  ![j].manifest = Manifest(W(j).categories,
                                                           W(j).progress.files, now)]
          /\ worker' = [worker EXCEPT ![j].pc = "complete",
                                       ![j].index_at = Len(stream[j])]
          /\ UNCHANGED faults
       \/ /\ ~disk[j].exists \/ faults < MaxFaults
          /\ faults' = IF disk[j].exists THEN faults + 1 ELSE faults
          /\ worker' = [worker EXCEPT ![j].pc = "except", ![j].error = "OSError",
                                       ![j].index_at = -1]
          /\ UNCHANGED disk
    /\ UNCHANGED <<jobs, job_queues, queue, cache, observer, response, stream,
                   fetchLog, topicLog, nextJob, cli, now, parse>>

\* app.py:364
MarkComplete(j) ==
    /\ W(j).pc = "complete"
    /\ LET p == [W(j).progress EXCEPT !.status = "complete"]
       IN /\ Put(j, <<to_dict(j, p)>>)
          /\ worker' = [worker EXCEPT ![j].progress = p, ![j].pc = "registry"]
    /\ UNCHANGED <<jobs, job_queues, cache, disk, observer, response, fetchLog,
                   topicLog, nextJob, faults, cli, now, parse>>

\* app.py:365-369
StoreComplete(j) ==
    /\ W(j).pc = "registry"
    /\ jobs' = SetJob(jobs, j, [status |-> "complete", output_dir |-> j,
                                files |-> W(j).progress.files])
    /\ worker' = [worker EXCEPT ![j].pc = "done"]
    /\ UNCHANGED <<job_queues, queue, cache, disk, observer, response, stream,
                   fetchLog, topicLog, nextJob, faults, cli, now, parse>>

\* ExceptPut putting no event
ExceptSilent(j) ==
    /\ W(j).pc = "except"
    /\ worker' = [worker EXCEPT ![j].pc = "except_registry"]
    /\ UNCHANGED <<jobs, job_queues, queue, stream, cache, disk, observer, response,
                   fetchLog, topicLog, nextJob, faults, cli, now, parse>>

\* app.py:371-372
ExceptPut(j) ==
    /\ W(j).pc = "except"
    /\ Put(j, <<ErrorEvent(j, W(j).error)>>)
    /\ worker' = [worker EXCEPT ![j].pc = "except_registry"]
    /\ UNCHANGED <<jobs, job_queues, cache, disk, observer, response, fetchLog,
                   topicLog, nextJob, faults, cli, now, parse>>

\* StoreError marking every job of the registry as failed
StoreErrorAll(j) ==
    /\ W(j).pc = "except_registry"
    /\ jobs' = [k \in DOMAIN jobs \cup {j} |-> [status |-> "error", error |-> W(j).error]]
    /\ worker' = [worker EXCEPT ![j].pc = "done"]
    /\ UNCHANGED <<job_queues, queue, cache, disk, observer, response, stream,
                   fetchLog, topicLog, nextJob, faults, cli, now, parse>>

\* app.py:373
StoreError(j) ==
    /\ W(j).pc = "except_registry"
    /\ jobs' = SetJob(jobs, j, [status |-> "error", error |-> W(j).error])
    /\ worker' = [worker EXCEPT ![j].pc = "done"]
    /\ UNCHANGED <<job_queues, queue, cache, disk, observer, response, stream,
                   fetchLog, topicLog, nextJob, faults, cli, now, parse>>

\* ------------------------------------------------------ the HTTP handlers
\* The JSON body of POST /api/scrape
Req(categories, has_sources, sources) ==
    [categories |-> categories, has_sources |-> has_sources, sources |-> sources]

\* start_scrape without the check of app.py:413-414
start_scrape_unchecked(req) ==
    LET sources == IF req.has_sources THEN req.sources ELSE DefaultSources
        job_id == nextJob + 1
    IN /\ nextJob < MaxJobs
       /\ nextJob' = job_id
       /\ job_queues' = job_queues \cup {job_id}
       /\ queue' = [queue EXCEPT ![job_id] = <<>>]
       /\ jobs' = SetJob(jobs, job_id, [status |-> "running", output_dir |-> job_id])
       /\ worker' = [worker EXCEPT ![job_id] =
             [NoWorker EXCEPT !.pc = "start", !.categories = req.categories,
                              !.sources = sources]]
       /\ response' = [route |-> "scrape", request |-> req, code |-> 200,
                       job_id |-> job_id]

\* app.py:404-433
start_scrape(req) ==
    LET selected_categories == req.categories
        sources == IF req.has_sources THEN req.sources ELSE DefaultSources
        job_id == nextJob + 1
    IN IF selected_categories = <<>>
       THEN /\ response' = [route |-> "scrape", request |-> req, code |-> 400,
                            error |-> "No categories selected"]
            /\ UNCHANGED <<jobs, job_queues, queue, worker, nextJob>>
       ELSE /\ nextJob < MaxJobs
            /\ nextJob' = job_id
            /\ job_queues' = job_queues \cup {job_id}
            /\ queue' = [queue EXCEPT ![job_id] = <<>>]
            /\ jobs' = SetJob(jobs, job_id, [status |-> "running", output_dir |-> job_id])
            /\ worker' = [worker EXCEPT ![job_id] =
                  [NoWorker EXCEPT !.pc = "start", !.categories = selected_categories,
                                   !.sources = sources]]
            /\ response' = [route |-> "scrape", request |-> req, code |-> 200,
                            job_id |-> job_id]

StartScrape(req) ==
    /\ start_scrape(req)
    /\ UNCHANGED <<cache, disk, observer, stream, fetchLog, topicLog, faults, cli, now,
                   parse>>

\* app.py:467-499  download_results: the reply to GET /api/download/<job_id>
download_results(job_id) ==
    IF job_id \notin DOMAIN jobs
    THEN [route |-> "download", job_id |-> job_id, code |-> 404, error |-> "Job not found"]
    ELSE IF jobs[job_id].status # "complete"
    THEN [route |-> "download", job_id |-> job_id, code |-> 400, error |-> "Job not complete"]
    ELSE IF ~disk[jobs[job_id].output_dir].exists
    THEN [route |-> "download", job_id |-> job_id, code |-> 404,
          error |-> "Output directory not found"]
    ELSE [route |-> "download", job_id |-> job_id, code |-> 200,
          files |-> disk[jobs[job_id].output_dir].files]

DownloadResults(job_id) ==
    /\ response' = download_results(job_id)
    /\ UNCHANGED <<jobs, job_queues, queue, worker, cache, disk, observer, stream,
                   fetchLog, topicLog, nextJob, faults, cli, now, parse>>

\* app.py:583-595
CleanupJob(job_id) ==
    /\ IF job_id \in DOMAIN jobs
       THEN /\ disk' = IF "output_dir" \in DOMAIN jobs[job_id]
                          /\ disk[jobs[job_id].output_dir].exists
                       THEN [disk EXCEPT ![jobs[job_id].output_dir] = NoDir]
                       ELSE disk
            /\ job_queues' = job_queues \ {job_id}
            /\ jobs' = [k \in DOMAIN jobs \ {job_id} |-> jobs[k]]
       ELSE UNCHANGED <<disk, job_queues, jobs>>
    /\ UNCHANGED <<queue, worker, cache, observer, response, stream, fetchLog,
                   topicLog, nextJob, faults, cli, now, parse>>

\* One get_progress generator: pc "idle" (not requested), "streaming",
\* "closed" (the generator returned); sent = the queue events and the
\* not-found event yielded so far, last = the event yielded last,
\* beats = the number of heartbeats yielded so far
NoObserver ==
    [pc |-> "idle", job |-> UnknownJob, sent |-> <<>>, last |-> [none |-> TRUE],
     beats |-> 0]

Heartbeat == [heartbeat |-> TRUE]
NotFound == [error |-> "Job not found"]

\* Terminal ending the stream on a complete snapshot only
TerminalCompleteOnly(event) == "status" \in DOMAIN event /\ event.status = "complete"

\* app.py:451  progress.get("status") in ["complete", "error"]
Terminal(event) == "status" \in DOMAIN event /\ event.status \in {"complete", "error"}

\* app.py:439-444  the generator starts: unknown ids get the not-found event
ProgressOpen(o, job_id) ==
    /\ observer[o].pc = "idle"
    /\ IF job_id \notin job_queues
       THEN observer' = [observer EXCEPT ![o] =
               [@ EXCEPT !.pc = "closed", !.job = job_id, !.sent = <<NotFound>>,
                         !.last = NotFound]]
       ELSE observer' = [observer EXCEPT ![o] =
               [@ EXCEPT !.pc = "streaming", !.job = job_id]]
    /\ UNCHANGED <<jobs, job_queues, queue, worker, cache, disk, response, stream,
                   fetchLog, topicLog, nextJob, faults, cli, now, parse>>

\* app.py:448-452  queue.get returned an event
ProgressGet(o) ==
    /\ observer[o].pc = "streaming"
    /\ queue[observer[o].job] # <<>>
    /\ LET progress == Head(queue[observer[o].job])
       IN /\ queue' = [queue EXCEPT ![observer[o].job] = Tail(@)]
          /\ observer' = [observer EXCEPT ![o] =
                [@ EXCEPT !.sent = Append(@, progress), !.last = progress,
                          !.pc = IF Terminal(progress) THEN "closed" ELSE "streaming"]]
    /\ UNCHANGED <<jobs, job_queues, worker, cache, disk, response, stream,
                   fetchLog, topicLog, nextJob, faults, cli, now, parse>>

\* ProgressTimeout ending the stream with the heartbeat
ProgressTimeoutClosing(o) ==
    /\ observer[o].pc = "streaming"
    /\ queue[observer[o].job] = <<>>
    /\ observer[o].beats < MaxHeartbeats
    /\ observer' = [observer EXCEPT ![o] =
          [@ EXCEPT !.last = Heartbeat, !.beats = @ + 1, !.pc = "closed"]]
    /\ UNCHANGED <<jobs, job_queues, queue, worker, cache, disk, response, stream,
                   fetchLog, topicLog, nextJob, faults, cli, now, parse>>

\* app.py:453-455  queue.get timed out on an empty queue
ProgressTimeout(o) ==
    /\ observer[o].pc = "streaming"
    /\ queue[observer[o].job] = <<>>
    /\ observer[o].beats < MaxHeartbeats
    /\ observer' = [observer EXCEPT ![o] =
          [@ EXCEPT !.last = Heartbeat, !.beats = @ + 1]]
    /\ UNCHANGED <<jobs, job_queues, queue, worker, cache, disk, response, stream,
                   fetchLog, topicLog, nextJob, faults, cli, now, parse>>

\* ------------------------------------------- AstronomyScraper (the CLI run)
NoCli ==
    [pc |-> "idle", categories |-> <<>>, sources |-> <<>>, ci |-> 0, ti |-> 0,
     si |-> 0, results |-> <<>>, saved |-> <<>>, topics |-> <<>>, fetched |-> <<>>,
     error |-> "", delays |-> 0]

\* astro_scraper.py:618  the exceptions AstronomyScraper.fetch_topic catches
CliCaught == {"RequestException", "ValueError", "AttributeError"}

\* astro_scraper.py:610-619  the adapter call of AstronomyScraper.fetch_topic:
\* the TopicResult and the cache after it, and the exception that escapes it
CliFetch(results, c, topic, source_name, fetched) ==
    IF fetched.kind = "raise"
    THEN [results |-> results, cache |-> c,
          escaped |-> IF fetched.exc \in CliCaught THEN "" ELSE fetched.exc]
    ELSE LET data == get_article(source_name, topic, fetched)
         IN IF Truthy(data)
            THEN [results |-> DictSet(results, source_name, data),
                  cache |-> save_to_cache(c, topic, source_name, data),
                  escaped |-> ""]
            ELSE [results |-> results, cache |-> c, escaped |-> ""]

\* scrape_all / scrape_category reach the topic at pos: fetch_topic starts
\* with an empty TopicResult (astro_scraper.py:597)
CliAtPos(c, pos) ==
    IF pos = <<0, 0>>
    THEN [c EXCEPT !.pc = "index", !.ci = 0, !.ti = 0, !.si = 0, !.results = <<>>]
    ELSE LET si == NextSource(c.sources, 1)
         IN [c EXCEPT !.pc = IF si = 0 THEN "finish" ELSE "source",
                      !.ci = pos[1], !.ti = pos[2], !.si = si, !.results = <<>>]

CliTopic == TopicsOf(cli.categories[cli.ci][2])[cli.ti]

\* astro_scraper.py:707-722  scrape_all starts over the given categories
CliStart(categories, sources) ==
    /\ cli.pc = "idle"
    /\ cli' = CliAtPos([NoCli EXCEPT !.categories = categories, !.sources = sources],
                       NextPos(categories, 1, 1))
    /\ UNCHANGED <<jobs, job_queues, queue, worker, cache, disk, observer, response,
                   stream, fetchLog, topicLog, nextJob, faults, now, parse>>

\* astro_scraper.py:599-622  one iteration of the source loop
CliVisitSource ==
    /\ cli.pc = "source"
    /\ LET source_name == cli.sources[cli.si]
           cached == load_from_cache(CliTopic, source_name)
           si == NextSource(cli.sources, cli.si + 1)
           after(c) == [c EXCEPT !.si = si, !.pc = IF si = 0 THEN "finish" ELSE "source"]
       IN IF Raised(cached)
          THEN /\ cli' = [cli EXCEPT !.pc = "crashed", !.error = cached.exc]
               /\ UNCHANGED cache
          ELSE IF Truthy(cached)
          THEN /\ cli' = after([cli EXCEPT !.results = DictSet(@, source_name, cached)])
               /\ UNCHANGED cache
          ELSE \E fetched \in Fetched(source_name) :
                 LET r == CliFetch(cli.results, cache, CliTopic, source_name, fetched)
                     logged == [cli EXCEPT !.fetched =
                                   Append(@, <<CliTopic, source_name,
                                               Outcome(source_name, CliTopic, fetched)>>)]
                 IN /\ cache' = r.cache
                    /\ cli' = IF r.escaped = ""
                              THEN after(Sleep([logged EXCEPT !.results = r.results]))
                              ELSE [logged EXCEPT !.pc = "crashed", !.error = r.escaped]
    /\ UNCHANGED <<jobs, job_queues, queue, worker, disk, observer, response,
                   stream, fetchLog, topicLog, nextJob, faults, now, parse>>

\* astro_scraper.py:694-703  after fetch_topic returned
CliFinishTopic ==
    /\ cli.pc = "finish"
    /\ LET topic_data == [category |-> cli.categories[cli.ci][1], topic |-> CliTopic,
                          sources |-> cli.results]
           done == [cli EXCEPT !.topics = Append(@, topic_data)]
       IN \/ /\ Renders(cli.results)
             /\ cli' = CliAtPos(
                      [done EXCEPT !.saved =
                          IF cli.results # <<>>
                          THEN Append(@, TopicPath("cli", topic_data.category, CliTopic))
                          ELSE @],
                      NextPos(cli.categories, cli.ci, cli.ti + 1))
             /\ UNCHANGED faults
          \/ /\ cli.results # <<>>
             /\ faults < MaxFaults
             /\ faults' = faults + 1
             /\ cli' = [done EXCEPT !.pc = "crashed", !.error = "OSError"]
          \/ /\ ~Renders(cli.results)
             /\ cli' = [done EXCEPT !.pc = "crashed", !.error = "AttributeError"]
             /\ UNCHANGED faults
    /\ UNCHANGED <<jobs, job_queues, queue, worker, cache, disk, observer, response,
                   stream, fetchLog, topicLog, nextJob, now, parse>>

\* astro_scraper.py:739-744  the index, then scrape_all returns
CliSaveIndex ==
    /\ cli.pc = "index"
    /\ cli' = [cli EXCEPT !.pc = "done"]
    /\ UNCHANGED <<jobs, job_queues, queue, worker, cache, disk, observer, response,
                   stream, fetchLog, topicLog, nextJob, faults, now, parse>>

\* ------------------------------------- one call of the Wikipedia adapter
NoParse == [pc |-> "idle", page |-> <<>>, document |-> None]

\* astro_scraper.py:284-360  get_article on the fetched page
WikiParse ==
    /\ parse.pc = "fetched"
    /\ parse' = [parse EXCEPT
                    !.pc = "parsed",
                    !.document = WikipediaGetArticle("X", [kind |-> "page",
                                                           body |-> parse.page])]
    /\ UNCHANGED <<jobs, job_queues, queue, worker, cache, disk, observer, response,
                   stream, fetchLog, topicLog, nextJob, faults, cli, now>>

\* astro_scraper.py:403-429  NASASource.get_article on the fetched page
NasaParse ==
    /\ parse.pc = "fetched_nasa"
    /\ parse' = [parse EXCEPT
                    !.pc = "parsed_nasa",
                    !.document = NASAGetArticle("X", [kind |-> "page",
                                                      body |-> NASAContent(parse.page)])]
    /\ UNCHANGED <<jobs, job_queues, queue, worker, cache, disk, observer, response,
                   stream, fetchLog, topicLog, nextJob, faults, cli, now>>

\* A second passes
Tick ==
    /\ now < MaxTime
    /\ now' = now + 1
    /\ UNCHANGED <<jobs, job_queues, queue, worker, cache, disk, observer, response,
                   stream, fetchLog, topicLog, nextJob, faults, cli, parse>>

\* ------------------------------------------------------- specifications
\* The submissions of the model
Requests ==
    {Req(<<>>, TRUE, <<"wikipedia", "nasa">>),
     Req(<< <<"c1", DictData({"description", "topics"}, TopicList(1))>>,
            <<"c2", DictData({"description"}, <<>>)>> >>, TRUE, <<"bogus", "nasa">>),
     Req(<< <<"c1", BareList(TopicList(1))>> >>, TRUE, <<"bogus">>),
     Req(<< <<"c1", DictData({"topics"}, TopicList(1))>> >>, FALSE, <<>>)}
    \cup {Req(<< <<"basics", BareList(TopicList(n))>> >>, TRUE, <<"wikipedia", "nasa">>) :
              n \in 0..MaxTopics}
    \cup {Req(<< <<"basics", BareList(TopicList(n))>> >>, TRUE, <<"nasa">>) :
              n \in 1..MaxTopics}

\* The size of a job over these categories and sources: two to start and
\* to end, and per topic one to begin it and one per source the registry
\* knows
Work(categories, sources) ==
    IF categories = <<>> THEN 0
    ELSE 2 + SumSeq([i \in DOMAIN categories |-> Len(TopicsOf(categories[i][2]))])
               * (1 + Cardinality({i \in DOMAIN sources : sources[i] \in SOURCES}))

\* The size of the jobs submitted so far
Workload == SumSeq([j \in JobIds |-> Work(worker[j].categories, worker[j].sources)])

\* The model takes a submission while the size of the jobs stays within MaxWork
Admit(req) ==
    Workload + Work(req.categories,
                    IF req.has_sources THEN req.sources ELSE DefaultSources)
        <= MaxWork

Init ==
    /\ jobs = <<>>
    /\ job_queues = {}
    /\ queue = [j \in JobIds |-> <<>>]
    /\ worker = [j \in JobIds |-> NoWorker]
    /\ cache = <<>>
    /\ disk = [j \in JobIds |-> NoDir]
    /\ observer = [o \in Observers |-> NoObserver]
    /\ response = [route |-> "none"]
    /\ stream = [j \in JobIds |-> <<>>]
    /\ fetchLog = [j \in JobIds |-> <<>>]
    /\ topicLog = [j \in JobIds |-> <<>>]
    /\ nextJob = 0
    /\ faults = 0
    /\ cli = NoCli
    /\ now = 0
    /\ parse = NoParse

\* the thread running run_scrape_job for job j
Worker(j) ==
    \/ WorkerStart(j)
    \/ FetchTopicBegin(j)
    \/ VisitSource(j)
    \/ FetchSource(j)
    \/ WriteCache(j)
    \/ FinishTopic(j)
    \/ SaveIndex(j)
    \/ MarkComplete(j)
    \/ StoreComplete(j)
    \/ ExceptPut(j)
    \/ StoreError(j)

\* Submissions and their workers
Next ==
    \/ \E req \in Requests : Admit(req) /\ StartScrape(req)
    \/ \E j \in JobIds : Worker(j)

Spec == Init /\ [][Next]_vars

\* app.py:426-431  every worker is a started thread of its own: it takes its
\* next step as long as it has one (every fetch, cache access and file write
\* returns or raises)
SpecFair == Spec /\ \A j \in JobIds : WF_vars(Worker(j))

\* The submissions of the model with observers
ProgressRequests ==
    {Req(<< <<"c1", BareList(TopicList(1))>> >>, TRUE, <<"nasa">>),
     Req(<< <<"c1", BareList(TopicList(1))>> >>, TRUE, <<"wikipedia", "nasa">>)}

\* One submission, its worker, cleanup requests and progress queries
NextProgress ==
    \/ \E req \in ProgressRequests : nextJob = 0 /\ StartScrape(req)
    \/ \E j \in JobIds : Worker(j)
    \/ \E j \in JobIds \cup {UnknownJob} : CleanupJob(j)
    \/ \E o \in Observers, j \in JobIds \cup {UnknownJob} : ProgressOpen(o, j)
    \/ \E o \in Observers : ProgressGet(o)
    \/ \E o \in Observers : ProgressTimeout(o)

SpecProgress == Init /\ [][NextProgress]_vars

\* The submissions of the model of artifact paths: topic names and category
\* names that save_topic maps to one path, and names it keeps apart
PathRequests ==
    {Req(<< <<"c1", BareList(<<"X", "X">>)>> >>, TRUE, <<"nasa">>),
     Req(<< <<"c1", BareList(<<"X Y", "X/Y">>)>> >>, TRUE, <<"nasa">>),
     Req(<< <<"deep sky", BareList(<<"X">>)>>, <<"deep_sky", BareList(<<"X">>)>> >>,
         TRUE, <<"nasa">>),
     Req(<< <<"c1", BareList(<<"X", "Y">>)>> >>, TRUE, <<"nasa">>)}

\* One submission and its worker
NextPaths ==
    \/ \E req \in PathRequests : nextJob = 0 /\ StartScrape(req)
    \/ \E j \in JobIds : Worker(j)

SpecPaths == Init /\ [][NextPaths]_vars

\* The progress queries of the model of concurrent readers
Readers == 1..MaxReaders

InitReaders ==
    /\ jobs = <<>>
    /\ job_queues = {}
    /\ queue = [j \in JobIds |-> <<>>]
    /\ worker = [j \in JobIds |-> NoWorker]
    /\ cache = <<>>
    /\ disk = [j \in JobIds |-> NoDir]
    /\ observer = [o \in Readers |-> NoObserver]
    /\ response = [route |-> "none"]
    /\ stream = [j \in JobIds |-> <<>>]
    /\ fetchLog = [j \in JobIds |-> <<>>]
    /\ topicLog = [j \in JobIds |-> <<>>]
    /\ nextJob = 0
    /\ faults = 0
    /\ cli = NoCli
    /\ now = 0
    /\ parse = NoParse

\* One submission, its worker, and the progress queries opened for it
NextReaders ==
    \/ \E req \in ProgressRequests : nextJob = 0 /\ StartScrape(req)
    \/ \E j \in JobIds : Worker(j)
    \/ \E o \in Readers, j \in JobIds : j \in job_queues /\ ProgressOpen(o, j)
    \/ \E o \in Readers : ProgressGet(o)
    \/ \E o \in Readers : ProgressTimeout(o)

\* app.py:426-431, 446-452  the worker is a started thread, and each open
\* query is a generator the server keeps iterating: its queue.get returns
\* an event when one stays available
SpecReaders ==
    /\ InitReaders
    /\ [][NextReaders]_vars
    /\ \A j \in JobIds : WF_vars(Worker(j))
    /\ \A o \in Readers : WF_vars(ProgressGet(o))

\* the progress query o has been delivered the complete snapshot of its job
GotComplete(o) ==
    /\ observer[o].pc = "closed"
    /\ "status" \in DOMAIN observer[o].last
    /\ observer[o].last.status = "complete"

\* One submission, its worker, a progress query, and the download the
\* client requests once the query has delivered the complete snapshot
NextDownload ==
    \/ \E req \in ProgressRequests : nextJob = 0 /\ StartScrape(req)
    \/ \E j \in JobIds : Worker(j)
    \/ \E o \in Observers, j \in JobIds : ProgressOpen(o, j)
    \/ \E o \in Observers : ProgressGet(o)
    \/ \E o \in Observers : GotComplete(o) /\ DownloadResults(observer[o].job)

SpecDownload == Init /\ [][NextDownload]_vars

\* One AstronomyScraper.scrape_all run from the command line
CliRuns ==
    {<< << <<"basics", BareList(TopicList(n))>> >>, <<"wikipedia", "nasa">> >> :
        n \in 1..MaxTopics}
    \cup {<< << <<"c1", DictData({"description", "topics"}, TopicList(1))>>,
                <<"c2", BareList(TopicList(1))>> >>, <<"nasa", "bogus", "esa">> >>}

NextCli ==
    \/ \E run \in CliRuns : CliStart(run[1], run[2])
    \/ CliVisitSource
    \/ CliFinishTopic
    \/ CliSaveIndex

SpecCli == Init /\ [][NextCli]_vars

\* The submissions of the model of the shared cache: topic X once, and X in
\* two categories
CacheRequests ==
    {Req(<< <<"c1", BareList(<<"X">>)>> >>, TRUE, <<"wikipedia">>),
     Req(<< <<"c1", BareList(<<"X">>)>>, <<"c2", BareList(<<"X">>)>> >>, TRUE,
         <<"wikipedia">>)}

\* What the file of (X, wikipedia) can hold when the process starts: the
\* cache directory outlives the process (astro_scraper.py:38, :568)
CacheRecords ==
    {Partial, NotUtf8, JsonText(JsonArray(0)), JsonText(JsonArray(1)),
     JsonText(Document("Wikipedia", <<[heading |-> "Overview", content |-> <<"a">>]>>))}

InitCache ==
    /\ jobs = <<>>
    /\ job_queues = {}
    /\ queue = [j \in JobIds |-> <<>>]
    /\ worker = [j \in JobIds |-> NoWorker]
    /\ cache \in {<<>>} \cup {WriteFile(<<>>, "X", "wikipedia", r) : r \in CacheRecords}
    /\ disk = [j \in JobIds |-> NoDir]
    /\ observer = [o \in Observers |-> NoObserver]
    /\ response = [route |-> "none"]
    /\ stream = [j \in JobIds |-> <<>>]
    /\ fetchLog = [j \in JobIds |-> <<>>]
    /\ topicLog = [j \in JobIds |-> <<>>]
    /\ nextJob = 0
    /\ faults = 0
    /\ cli = NoCli
    /\ now = 0
    /\ parse = NoParse

\* Submissions over the shared cache and their workers
NextCache ==
    \/ \E req \in CacheRequests : StartScrape(req)
    \/ \E j \in JobIds : Worker(j)

SpecCache == InitCache /\ [][NextCache]_vars

\* The submission that is run and then run again
RerunRequests ==
    {Req(<< <<"c1", BareList(<<"X">>)>> >>, TRUE, <<"wikipedia", "nasa">>)}

\* A submission, its worker, the same submission again once the first run
\* has ended, and the clock
NextRerun ==
    \/ \E req \in RerunRequests :
          /\ \A j \in JobIds : worker[j].pc \in {"none", "done"}
          /\ StartScrape(req)
    \/ \E j \in JobIds : Worker(j)
    \/ Tick

SpecRerun == Init /\ [][NextRerun]_vars

\* The elements of the pages given to the Wikipedia adapter
WikiElems ==
    {Elem("h2", "History", FALSE), Elem("h2", "References", FALSE),
     Elem("h2", "REFERENCES", FALSE), Elem("h2", "", FALSE),
     Elem("p", "a[1]", FALSE), Elem("p", "", FALSE), Elem("ul", "b  b", FALSE),
     Elem("h2", "References", TRUE), Elem("p", "a[1]", TRUE)}

\* Every page of at most MaxElems of these elements
WikiInputs == UNION {[1..n -> WikiElems] : n \in 0..MaxElems}

InitWiki ==
    /\ jobs = <<>>
    /\ job_queues = {}
    /\ queue = [j \in JobIds |-> <<>>]
    /\ worker = [j \in JobIds |-> NoWorker]
    /\ cache = <<>>
    /\ disk = [j \in JobIds |-> NoDir]
    /\ observer = [o \in Observers |-> NoObserver]
    /\ response = [route |-> "none"]
    /\ stream = [j \in JobIds |-> <<>>]
    /\ fetchLog = [j \in JobIds |-> <<>>]
    /\ topicLog = [j \in JobIds |-> <<>>]
    /\ nextJob = 0
    /\ faults = 0
    /\ cli = NoCli
    /\ now = 0
    /\ parse \in {[pc |-> "fetched", page |-> page, document |-> None] :
                     page \in WikiInputs}

NextWiki == WikiParse

SpecWiki == InitWiki /\ [][NextWiki]_vars

\* The paragraph texts of the NASA pages of the model: 10, 50, 51 and 61
\* characters long
ShortText == "Read more."
Text50 == "Mars is the fourth planet from the Sun, a red one."
Text51 == "The Sun is the star at the centre of our own system"
Text61 == "A galaxy is a huge collection of gas, dust, stars and planets"

\* What a selector can match on these pages
NasaContainers ==
    {Missing, Container(<<>>), Container(<<ShortText>>), Container(<<Text50>>),
     Container(<<Text51>>), Container(<<ShortText, Text61>>)}

\* Every page: one of these per selector
NasaInputs == [DOMAIN NASASelectors -> NasaContainers]

InitNasa ==
    /\ jobs = <<>>
    /\ job_queues = {}
    /\ queue = [j \in JobIds |-> <<>>]
    /\ worker = [j \in JobIds |-> NoWorker]
    /\ cache = <<>>
    /\ disk = [j \in JobIds |-> NoDir]
    /\ observer = [o \in Observers |-> NoObserver]
    /\ response = [route |-> "none"]
    /\ stream = [j \in JobIds |-> <<>>]
    /\ fetchLog = [j \in JobIds |-> <<>>]
    /\ topicLog = [j \in JobIds |-> <<>>]
    /\ nextJob = 0
    /\ faults = 0
    /\ cli = NoCli
    /\ now = 0
    /\ parse \in {[pc |-> "fetched_nasa", page |-> page, document |-> None] :
                     page \in NasaInputs}

NextNasa == NasaParse

SpecNasa == InitNasa /\ [][NextNasa]_vars

\* ------------------------------------------------------------ properties
\* A full snapshot (ProgressTracker.to_dict), as opposed to the error event
IsSnapshot(e) == "completed_topics" \in DOMAIN e

Snapshots(j) == SelectSeq(stream[j], IsSnapshot)

\* a <= b on fractions <<numerator, denominator>> with positive denominators
FracLeq(a, b) == a[1] * b[2] <= b[1] * a[2]

Last(s) == s[Len(s)]

\* the category of job j is a dict without a "topics" key
NoTopicsKey(data) == data.isdict /\ "topics" \notin data.keys

\* C1: in every job's event stream completed_topics never decreases and
\* never exceeds total_topics; the progress value never decreases, stays
\* within 0..100 and is 0 whenever total_topics is 0, for every shape of the
\* submitted categories.
C1_ProgressMonotone ==
    \A j \in JobIds :
        LET s == Snapshots(j)
        IN /\ \A i \in DOMAIN s :
                /\ s[i].completed_topics <= s[i].total_topics
                /\ FracLeq(<<0, 1>>, s[i].progress)
                /\ FracLeq(s[i].progress, <<100, 1>>)
                /\ s[i].total_topics = 0 => s[i].progress[1] = 0
           /\ \A i \in 1..(Len(s) - 1) :
                /\ s[i].completed_topics <= s[i + 1].completed_topics
                /\ FracLeq(s[i].progress, s[i + 1].progress)

\* C1 witness: a finished job over a dict with a topics list and a dict
\* without a topics key whose stream shows completed_topics growing
C1_Witness ==
    \E j \in JobIds :
        /\ worker[j].pc = "done"
        /\ \E i \in DOMAIN worker[j].categories : NoTopicsKey(worker[j].categories[i][2])
        /\ \E i \in DOMAIN worker[j].categories :
              worker[j].categories[i][2].isdict /\ ~NoTopicsKey(worker[j].categories[i][2])
        /\ \E i \in 1..(Len(Snapshots(j)) - 1) :
              Snapshots(j)[i].completed_topics < Snapshots(j)[i + 1].completed_topics
        /\ Last(stream[j]).status = "complete"

\* C2: completed_topics equals total_topics exactly when the snapshot's
\* status is complete: no snapshot with another status carries
\* completed_topics = total_topics > 0, and every complete snapshot carries
\* completed_topics = total_topics.
C2_AllDoneIffComplete ==
    \A j \in JobIds : \A i \in DOMAIN Snapshots(j) :
        LET e == Snapshots(j)[i]
        IN /\ e.status # "complete" =>
                ~(e.total_topics > 0 /\ e.completed_topics = e.total_topics)
           /\ e.status = "complete" => e.completed_topics = e.total_topics

\* C3: at every snapshot completed_topics is the number of topics that had
\* finished (all selected sources attempted) when it was pushed, the topics
\* being finished in submission order, whether or not they gave an artifact.
\* The (category, topic) pairs of a job in submission order
RECURSIVE Flatten(_)
Flatten(categories) ==
    IF categories = <<>> THEN <<>>
    ELSE [i \in DOMAIN TopicsOf(Head(categories)[2]) |->
             <<Head(categories)[1], TopicsOf(Head(categories)[2])[i]>>]
         \o Flatten(Tail(categories))

C3_CompletedCountsFinished ==
    \A j \in JobIds :
        /\ \A i \in DOMAIN stream[j] :
              IsSnapshot(stream[j][i]) =>
                  stream[j][i].completed_topics =
                      Cardinality({k \in DOMAIN topicLog[j] : topicLog[j][k].at <= i})
        /\ Len(topicLog[j]) <= Len(Flatten(worker[j].categories))
        /\ \A k \in DOMAIN topicLog[j] :
              <<topicLog[j][k].category, topicLog[j][k].topic>>
                  = Flatten(worker[j].categories)[k]

\* C3 witness: a snapshot with completed_topics = 1 after a topic that gave
\* no artifact
C3_Witness ==
    \E j \in JobIds :
        /\ Len(topicLog[j]) >= 1
        /\ topicLog[j][1].sources = <<>>
        /\ \E i \in DOMAIN Snapshots(j) :
              Snapshots(j)[i].completed_topics = 1 /\ Snapshots(j)[i].files_count = 0

\* the forward order of the statuses of the lifecycle pending -> running ->
\* {complete, error}
Rank(status) ==
    CASE status = "pending" -> 0
      [] status = "running" -> 1
      [] OTHER -> 2

RECURSIVE IsSubseq(_, _)
IsSubseq(a, b) ==
    IF a = <<>> THEN TRUE
    ELSE IF b = <<>> THEN FALSE
    ELSE IF Head(a) = Head(b) THEN IsSubseq(Tail(a), Tail(b))
    ELSE IsSubseq(a, Tail(b))

IsPrefix(a, b) == Len(a) <= Len(b) /\ SubSeq(b, 1, Len(a)) = a

\* the event ends a job: its status is complete or error
EndsJob(e) == "status" \in DOMAIN e /\ e.status \in {"complete", "error"}

\* the observers reading the queue of the job observer o reads
SameQueue(o) == {x \in Observers : observer[x].pc # "idle" /\ observer[x].job = observer[o].job}

\* what a progress query has delivered, in every state
ProgressDelivered ==
    \A o \in Observers :
        LET ob == observer[o]
        IN /\ ob.pc = "idle" => ob.sent = <<>>
           /\ NotFound \in Range(ob.sent) =>
                 ob.sent = <<NotFound>> /\ ob.pc = "closed" /\ ob.beats = 0
           /\ (ob.pc # "idle" /\ NotFound \notin Range(ob.sent)) =>
                 /\ IsSubseq(ob.sent, stream[ob.job])
                 /\ SameQueue(o) = {o} => ob.sent \o queue[ob.job] = stream[ob.job]
           /\ \A i \in DOMAIN ob.sent :
                 EndsJob(ob.sent[i]) => i = Len(ob.sent) /\ ob.pc = "closed"
           /\ ob.pc = "closed" =>
                 ob.sent # <<>> /\ (Last(ob.sent) = NotFound \/ EndsJob(Last(ob.sent)))

\* how a progress query starts: not found for an id without a queue
ProgressOpened ==
    \A o \in Observers :
        (observer[o].pc = "idle" /\ observer'[o].pc # "idle") =>
            IF observer'[o].job \in job_queues
            THEN observer'[o].pc = "streaming" /\ observer'[o].sent = <<>>
            ELSE observer'[o].pc = "closed" /\ observer'[o].sent = <<NotFound>>

\* C5: a progress query for a registered job id delivers the job's snapshots
\* in the order the worker produced them and ends right after the first one
\* whose status is complete or error; a query for an unknown id delivers
\* exactly one not-found signal and no snapshot.
C5_ProgressQuery == [] ProgressDelivered /\ [][ProgressOpened]_vars

\* C5 witness: a query that delivered the whole stream of a job, in order,
\* and ended on its last event
C5_Witness ==
    \E o \in Observers :
        /\ observer[o].pc = "closed"
        /\ Len(observer[o].sent) >= 4
        /\ observer[o].sent = stream[observer[o].job]
        /\ EndsJob(Last(observer[o].sent))

\* C6: a submission with an empty (or missing) categories mapping is
\* rejected: no job id is returned, and the job table, the queue table and
\* the workers are as they were.
C6_EmptySubmissionRejected ==
    /\ [] ((response.route = "scrape" /\ response.request.categories = <<>>) =>
              (response.code = 400 /\ "job_id" \notin DOMAIN response))
    /\ [][(response' # response /\ response'.route = "scrape"
              /\ response'.request.categories = <<>>) =>
             UNCHANGED <<jobs, job_queues, queue, worker, nextJob, disk>>]_vars

\* C6 witness: an empty submission rejected while a job is registered
C6_Witness ==
    /\ response.route = "scrape"
    /\ response.request.categories = <<>>
    /\ response.code = 400
    /\ DOMAIN jobs # {}

\* the source list a submission selects
SelectedSources(req) == IF req.has_sources THEN req.sources ELSE DefaultSources

\* C7: a submission whose source list has no name in common with the
\* adapter registry is rejected and yields no job id.
C7_NoValidSourceRejected ==
    (response.route = "scrape" /\ Range(SelectedSources(response.request)) \cap SOURCES = {})
        => (response.code # 200 /\ "job_id" \notin DOMAIN response)

\* C8: the visit of a (topic, source) pair, whatever the adapter does, keeps
\* the documents already collected for the topic and goes on to the next
\* source or to the end of the topic, in both orchestrators.
C8_WebVisitIsolated ==
    \A j \in JobIds :
        worker[j].pc \in {"source", "fetch", "write"} =>
            /\ worker'[j].pc \in {"source", "fetch", "write", "finish"}
            /\ IsPrefix(worker[j].results, worker'[j].results)

C8_CliVisitIsolated ==
    cli.pc = "source" =>
        /\ cli'.pc \in {"source", "finish"}
        /\ IsPrefix(cli.results, cli'.results)

C8_AdapterFailureIsolated == [][C8_WebVisitIsolated /\ C8_CliVisitIsolated]_vars

\* C9 (scenario A): one category of topics X, Y, sources [wikipedia, nasa],
\* wikipedia giving a document for both, nasa failing for X and giving a
\* document for Y: TopicResult(X) = {wikipedia}, TopicResult(Y) =
\* {wikipedia, nasa}, 2 artifacts, status complete, completed_topics = 2,
\* progress 100.
ScenarioA(j) ==
    /\ worker[j].pc = "done"
    /\ faults = 0
    /\ worker[j].categories = << <<"basics", BareList(<<"X", "Y">>)>> >>
    /\ worker[j].sources = <<"wikipedia", "nasa">>
    /\ Len(fetchLog[j]) = 4
    /\ fetchLog[j][1] = <<"X", "wikipedia", "document">>
    /\ fetchLog[j][2][3] \in {"absent", "raised"}
    /\ fetchLog[j][3] = <<"Y", "wikipedia", "document">>
    /\ fetchLog[j][4] = <<"Y", "nasa", "document">>

C9_ScenarioA ==
    \A j \in JobIds :
        ScenarioA(j) =>
            /\ Len(topicLog[j]) = 2
            /\ topicLog[j][1].topic = "X" /\ KeySeq(topicLog[j][1].sources) = <<"wikipedia">>
            /\ topicLog[j][2].topic = "Y"
            /\ KeySeq(topicLog[j][2].sources) = <<"wikipedia", "nasa">>
            /\ Len(worker[j].progress.files) = 2
            /\ Cardinality(disk[j].files) = 2
            /\ Last(stream[j]).status = "complete"
            /\ Last(stream[j]).completed_topics = 2
            /\ Last(stream[j]).files_count = 2
            /\ Last(stream[j]).progress[1] = 100 * Last(stream[j]).progress[2]
            /\ jobs[j].status = "complete"
            /\ Len(jobs[j].files) = 2

\* C9 witness: the scenario has run to its end
C9_Witness == \E j \in JobIds : ScenarioA(j) /\ fetchLog[j][2] = <<"X", "nasa", "absent">>

\* C10 (scenario C): no Document with an empty sections list reaches a
\* TopicResult or the cache; an adapter whose parse yields no non-empty
\* section signals absence.
C10_NoEmptyDocument ==
    /\ \A j \in JobIds :
          /\ \A k \in DOMAIN topicLog[j] : \A i \in DOMAIN topicLog[j][k].sources :
                topicLog[j][k].sources[i][2].sections # <<>>
          /\ \A i \in DOMAIN worker[j].results : worker[j].results[i][2].sections # <<>>
    /\ \A key \in DOMAIN cache :
          cache[key].text = "json" => cache[key].value.sections # <<>>

\* the (topic, source) pair the worker of job j is visiting
CurPair(j) == <<CurTopic(j), CurSource(j)>>

\* _save_to_cache of a document for the pair has returned in job k
PutDone(k, pair) ==
    \E i \in DOMAIN fetchLog[k] :
        /\ fetchLog[k][i] = <<pair[1], pair[2], "document">>
        /\ i < Len(fetchLog[k]) \/ worker[k].pc # "write"

\* the documents the adapter of a source can return
Documents(source_name) ==
    {get_article(source_name, "X", f) :
        f \in {g \in Fetched(source_name) : g.kind # "raise"}} \ {None}

\* C11: once a put of a document for a (topic, source) pair has succeeded
\* (no cache write has failed), every later visit of the pair, in the same
\* or another job, takes a Document from the cache, calls no adapter and
\* writes nothing to the cache.
C11_CacheRoundTrip ==
    [][\A j \in JobIds :
          (/\ worker[j].pc = "source"
           /\ worker'[j] # worker[j]
           /\ faults = 0
           /\ \E k \in JobIds : PutDone(k, CurPair(j)))
          => /\ worker'[j].pc \in {"source", "finish"}
             /\ CurSource(j) \in Keys(worker'[j].results)
             /\ worker'[j].results[Lookup(worker'[j].results, CurSource(j))][2]
                    \in Documents(CurSource(j))
             /\ fetchLog' = fetchLog
             /\ cache' = cache]_vars

\* the record deserializes into a Document
IsDocumentRecord(record) == record.text = "json" /\ "sections" \in DOMAIN record.value

\* C12: the visit of a pair whose cache record exists but does not
\* deserialize into a Document goes on to the adapter fetch for that pair,
\* whatever the record holds; the job does not fail because of the record.
C12_CorruptRecordIsMiss ==
    [][\A j \in JobIds :
          (/\ worker[j].pc = "source"
           /\ worker'[j] # worker[j]
           /\ get_cache_path(CurTopic(j), CurSource(j)) \in DOMAIN cache
           /\ ~IsDocumentRecord(cache[get_cache_path(CurTopic(j), CurSource(j))]))
          => worker'[j].pc = "fetch"]_vars

\* the artifacts of job j below its output directory, with their text
ArtifactsOf(j) ==
    {<<path[2], path[3], disk[j].text[path]>> : path \in DOMAIN disk[j].text}

\* the counts of the manifest of job j
ManifestCounts(j) == <<disk[j].manifest.topics_count, disk[j].manifest.total_files>>

\* C13: two complete runs of the same submission (same categories, topics
\* and sources) leave artifacts with the same content and manifests with
\* the same counts, whenever the second run executes and whichever pairs
\* were absent in the first.
C13_RerunIdentical ==
    \A j, k \in JobIds :
        (/\ worker[j].pc = "done" /\ worker[k].pc = "done"
         /\ j \in DOMAIN jobs /\ k \in DOMAIN jobs
         /\ jobs[j].status = "complete" /\ jobs[k].status = "complete"
         /\ worker[j].categories = worker[k].categories
         /\ worker[j].sources = worker[k].sources)
        => /\ ArtifactsOf(j) = ArtifactsOf(k)
           /\ ManifestCounts(j) = ManifestCounts(k)

\* an exception has reached the except branch of run_scrape_job in job j
Failed(j) == worker[j].error # ""

\* the failed job's stream ends with the error event carrying the message,
\* and its registry entry is the error entry once the worker has ended
ErrorSurfaced ==
    \A j \in JobIds :
        /\ (Failed(j) /\ worker[j].pc \in {"except_registry", "done"})
              => Last(stream[j]) = [job_id |-> j, status |-> "error",
                                    error |-> worker[j].error]
        /\ (Failed(j) /\ worker[j].pc = "done" /\ j \in DOMAIN jobs)
              => jobs[j] = [status |-> "error", error |-> worker[j].error]

\* a step of a failing or failed worker leaves every other job alone
SiblingsUntouched ==
    \A j \in JobIds :
        (worker'[j] # worker[j] /\ (Failed(j) \/ worker'[j].error # ""))
        => \A k \in JobIds \ {j} :
              /\ (k \in DOMAIN jobs) = (k \in DOMAIN jobs')
              /\ k \in DOMAIN jobs => jobs'[k] = jobs[k]
              /\ (k \in job_queues) = (k \in job_queues')
              /\ queue'[k] = queue[k]
              /\ stream'[k] = stream[k]
              /\ worker'[k] = worker[k]

\* C14: a failure raised inside the worker of a job ends only that job: its
\* stream gets the event with status error and the message, its registry
\* entry becomes the error entry, and the registry entries, queues and
\* progress of the other jobs are unchanged by it.
C14_FailureEndsOnlyThatJob == [] ErrorSurfaced /\ [][SiblingsUntouched]_vars

\* C14 witness: a job ended in error beside a job that ended complete
C14_Witness ==
    \E j, k \in JobIds :
        /\ Failed(j) /\ worker[j].pc = "done" /\ jobs[j].status = "error"
        /\ Last(stream[j]).status = "error"
        /\ worker[k].pc = "done" /\ jobs[k].status = "complete"

\* the fields of a full snapshot
SnapshotFields ==
    {"job_id", "total_topics", "completed_topics", "current_topic", "current_source",
     "status", "progress", "files_count"}

\* C15: every event on a job's stream is a full snapshot with all eight
\* fields, and every mutation of the job's fields has been pushed: the last
\* event of the stream is the snapshot of the tracker's current fields.
C15_EveryEventFullSnapshot ==
    \A j \in JobIds :
        /\ \A i \in DOMAIN stream[j] : DOMAIN stream[j][i] = SnapshotFields
        /\ stream[j] # <<>> => Last(stream[j]) = to_dict(j, worker[j].progress)

\* cleanup_job has returned for job id j: only cleanup_job removes an id
\* from the queue table, and start_scrape puts every id it issues there
Cleaned(j) == j <= nextJob /\ j \notin job_queues

\* C16: a job id is in the job table from its submission until its
\* cleanup, and once cleanup has returned for it the id stays out of the job
\* table and the queue table, also when the worker was still running.
C16_CleanedStaysAbsent ==
    \A j \in JobIds :
        /\ (j <= nextJob /\ ~Cleaned(j)) => j \in DOMAIN jobs
        /\ Cleaned(j) => j \notin DOMAIN jobs
        /\ j > nextJob => (j \notin DOMAIN jobs /\ j \notin job_queues)

\* the topics of job j that had finished when event i was put on its stream
FinishedAt(j, i) == {k \in DOMAIN topicLog[j] : topicLog[j][k].at <= i}

\* C17: a finished topic has an artifact, and its path is in the job's
\* artifact list, exactly when its TopicResult has a source entry; in every
\* snapshot files_count is the number of finished topics with a non-empty
\* TopicResult and is at most completed_topics.
C17_ArtifactIffNonEmpty ==
    \A j \in JobIds :
        /\ \A i \in DOMAIN stream[j] :
              IsSnapshot(stream[j][i]) =>
                 /\ stream[j][i].files_count =
                       Cardinality({k \in FinishedAt(j, i) : topicLog[j][k].sources # <<>>})
                 /\ stream[j][i].files_count <= stream[j][i].completed_topics
        /\ \A k \in FinishedAt(j, Len(stream[j])) :
              IsSnapshot(stream[j][topicLog[j][k].at]) =>
                 LET path == TopicPath(j, topicLog[j][k].category, topicLog[j][k].topic)
                 IN /\ (path \in disk[j].files) = (topicLog[j][k].sources # <<>>)
                    /\ (path \in Range(worker[j].progress.files))
                          = (topicLog[j][k].sources # <<>>)

\* C17 witness: a complete job with a topic that gave no document and a
\* topic that gave one
C17_Witness ==
    \E j \in JobIds :
        /\ worker[j].pc = "done" /\ jobs[j].status = "complete"
        /\ Len(topicLog[j]) = 2
        /\ topicLog[j][1].sources = <<>> /\ topicLog[j][2].sources # <<>>
        /\ Last(stream[j]).files_count = 1
        /\ Last(stream[j]).completed_topics = 2

\* the headings, paragraphs and lists of a page: its elements outside the
\* infobox, navbox and metadata boxes
PageContent(page) == SelectSeq(page, LAMBDA e : ~e.skip)

\* the places where a section of page p starts: 0 for the lead, and the
\* index of every heading
SectionStarts(p) == {0} \cup {i \in DOMAIN p : p[i].name = "h2"}

\* the last element of the section of p that starts at s
SectionEnd(p, s) ==
    IF \E i \in SectionStarts(p) : i > s
    THEN (CHOOSE i \in SectionStarts(p) :
             i > s /\ \A k \in SectionStarts(p) : k > s => i <= k) - 1
    ELSE Len(p)

\* the heading is one of the excluded names, whatever its case
IsExcluded(p, s) == s > 0 /\ Lower(p[s].text) \in ExcludedHeadings

\* the non-empty paragraphs and lists of that section, in page order
SectionBody(p, s) ==
    LET body == SelectSeq(SubSeq(p, s + 1, SectionEnd(p, s)), LAMBDA e : e.text # "")
    IN [i \in DOMAIN body |->
           IF body[i].name = "p" THEN clean_text(body[i].text)
           ELSE "  * " \o clean_text(body[i].text)]

\* the elements of a set of numbers in ascending order
Ascending(S) ==
    CHOOSE f \in [1..Cardinality(S) -> S] :
        \A a, b \in 1..Cardinality(S) : a < b => f[a] < f[b]

\* the sections the Document of page p has to hold: one per heading that is
\* not excluded and has a non-empty paragraph or list, and the lead
SectionsDue(p) ==
    LET kept == Ascending({s \in SectionStarts(p) :
                              ~IsExcluded(p, s) /\ SectionBody(p, s) # <<>>})
    IN [i \in DOMAIN kept |->
           [heading |-> IF kept[i] = 0 THEN "Overview" ELSE p[kept[i]].text,
            content |-> SectionBody(p, kept[i])]]

\* C18 (scenario D), for every page: the Document holds no paragraph or
\* list of an excluded section, and holds every non-empty paragraph and list
\* of every other section under its heading, in page order.
C18_ExcludedSectionsOnly ==
    parse.pc = "parsed" =>
        parse.document.sections = SectionsDue(PageContent(parse.page))

\* the selected sources the registry knows, in selection order
Registered(sources) == SelectSeq(sources, LAMBDA x : x \in SOURCES)

\* the (topic, source) pairs of a job in lexicographic order of their
\* positions in the categories, the topic lists and the source list
RECURSIVE PairsOf(_, _)
PairsOf(topics, sources) ==
    IF topics = <<>> THEN <<>>
    ELSE [i \in DOMAIN Registered(sources) |-> <<Head(topics)[2], Registered(sources)[i]>>]
         \o PairsOf(Tail(topics), sources)

\* the pairs whose visit has started, as the stream of job j shows them: the
\* snapshot a visit begins with says fetching and follows a snapshot that
\* says fetching
VisitsOf(j) ==
    LET started == SelectSeq([i \in DOMAIN stream[j] |-> i],
                             LAMBDA i : /\ i > 1
                                        /\ IsSnapshot(stream[j][i])
                                        /\ stream[j][i].status = "fetching"
                                        /\ stream[j][i - 1].status = "fetching")
    IN [n \in DOMAIN started |->
           <<stream[j][started[n]].current_topic, stream[j][started[n]].current_source>>]

\* the pairs of the adapter calls of job j
FetchesOf(j) == [i \in DOMAIN fetchLog[j] |-> <<fetchLog[j][i][1], fetchLog[j][i][2]>>]

\* C19: the visits of a job are the job's (category, topic, source) pairs
\* in lexicographic order of their positions, one after the other: a visit
\* begins only when the one before has ended, every adapter call belongs to
\* the visit in progress, and the keys of each TopicResult are in
\* source-selection order.
C19_SequentialOrdered ==
    \A j \in JobIds :
        /\ IsPrefix(VisitsOf(j), PairsOf(Flatten(worker[j].categories), worker[j].sources))
        /\ IsSubseq(FetchesOf(j), VisitsOf(j))
        /\ worker[j].pc \in {"fetch", "write"} => CurPair(j) = Last(VisitsOf(j))
        /\ worker[j].pc = "write" => Last(FetchesOf(j)) = Last(VisitsOf(j))
        /\ IsSubseq(KeySeq(worker[j].results), Registered(worker[j].sources))
        /\ \A k \in DOMAIN topicLog[j] :
              IsSubseq(KeySeq(topicLog[j][k].sources), Registered(worker[j].sources))

\* C19 witness: a job of two topics and two sources has visited its four
\* pairs and the second topic has both sources
C19_Witness ==
    \E j \in JobIds :
        /\ worker[j].pc = "done"
        /\ Len(VisitsOf(j)) = 4
        /\ VisitsOf(j) = <<<<"X", "wikipedia">>, <<"X", "nasa">>,
                           <<"Y", "wikipedia">>, <<"Y", "nasa">>>>
        /\ KeySeq(topicLog[j][2].sources) = <<"wikipedia", "nasa">>

\* what the step of the worker of job j does to the cache, in order:
\* the adapter is called only in a visit whose lookup missed
FetchAfterMiss(j) ==
    /\ (worker'[j].pc = "fetch" /\ worker[j].pc # "fetch")
          => /\ worker[j].pc = "source"
             /\ ~Truthy(load_from_cache(CurTopic(j), CurSource(j)))
    /\ fetchLog'[j] # fetchLog[j]
          => /\ worker[j].pc = "fetch"
             /\ fetchLog'[j] = Append(fetchLog[j], Last(fetchLog'[j]))
             /\ <<Last(fetchLog'[j])[1], Last(fetchLog'[j])[2]>> = CurPair(j)

\* a fetch that gave a document opens the pair's cache file and the write
\* comes next; any other fetch leaves the cache alone
WriteAfterDocument(j) ==
    fetchLog'[j] # fetchLog[j]
        => IF Last(fetchLog'[j])[3] = "document"
           THEN /\ worker'[j].pc = "write"
                /\ cache' = open_for_write(cache, CurTopic(j), CurSource(j))
           ELSE worker'[j].pc # "write" /\ cache' = cache

\* the write stores the fetched document under the pair, unless it fails,
\* and only then does the worker go on to the next pair
WriteBeforeNextPair(j) ==
    (worker[j].pc = "write" /\ worker'[j] # worker[j])
        => /\ worker'[j].pc \in {"source", "finish"}
           /\ \/ cache' = WriteFile(cache, CurTopic(j), CurSource(j),
                                     JsonText(worker[j].data))
              \/ faults' = faults + 1 /\ cache' = cache
           /\ worker[j].data = worker[j].results[Lookup(worker[j].results,
                                                         CurSource(j))][2]

\* C20: in every visit the cache lookup comes before the adapter fetch, the
\* adapter is fetched only after a miss, a fetch that returns a Document is
\* followed by the cache write for that pair before the next pair is visited,
\* and an absent or failed fetch writes nothing to the cache.
C20_LookupFetchWrite ==
    [][/\ \A j \in JobIds :
             FetchAfterMiss(j) /\ WriteAfterDocument(j) /\ WriteBeforeNextPair(j)
       /\ cache' # cache => \E j \in JobIds : worker[j].pc \in {"fetch", "write"}]_vars

\* C20 witness: a job that fetched a document for one pair and nothing for
\* the next has ended, and the cache holds the document and nothing else
C20_Witness ==
    \E j \in JobIds :
        /\ worker[j].pc = "done"
        /\ fetchLog[j] = <<<<"X", "wikipedia", "document">>, <<"X", "nasa", "absent">>>>
        /\ DOMAIN cache = {<<"X", "wikipedia">>}
        /\ IsDocumentRecord(cache[<<"X", "wikipedia">>])

\* C21: every adapter fetch of a job, whether it gave a document, nothing or
\* an exception, is followed by the inter-request delay before the next
\* source or topic is processed (for a document, once its cache write has
\* returned), so every fetch starts with a delay taken after each fetch
\* before it; a visit served from the cache takes no delay.  The same holds
\* of a command-line run as long as no exception has ended it.
C21_DelayAfterEveryFetch ==
    /\ \A j \in JobIds :
          worker[j].delays = IF worker[j].pc = "write"
                             THEN Len(fetchLog[j]) - 1
                             ELSE Len(fetchLog[j])
    /\ cli.pc # "crashed" => cli.delays = Len(cli.fetched)

\* C21 witness: two jobs have ended: one fetched a document and took one
\* delay, the other was served that document from the cache and took none
C21_Witness ==
    \E j, k \in JobIds :
        /\ worker[j].pc = "done" /\ worker[k].pc = "done"
        /\ Len(fetchLog[k]) = 1 /\ fetchLog[k][1][3] = "document"
        /\ worker[k].delays = 1
        /\ Len(VisitsOf(j)) = 1 /\ Len(fetchLog[j]) = 0
        /\ worker[j].delays = 0

\* the complete snapshots on the stream of job j
CompleteAt(j) ==
    {i \in DOMAIN stream[j] : IsSnapshot(stream[j][i]) /\ stream[j][i].status = "complete"}

\* C22: index_at is the number of events a job had put when its index and
\* manifest were written (-1 when the write failed, 0 before it).  The write
\* comes after every topic of every category has finished, a complete
\* snapshot is put only after the write and is the first event after it,
\* and a job whose index write failed puts no complete snapshot and ends
\* with the error event and the error entry.
C22_IndexBeforeComplete ==
    \A j \in JobIds :
        /\ worker[j].index_at # 0 =>
              /\ Len(topicLog[j]) = Len(Flatten(worker[j].categories))
              /\ \A k \in DOMAIN topicLog[j] : topicLog[j][k].at <= Len(stream[j]) + 1
              /\ worker[j].index_at > 0 =>
                    \A k \in DOMAIN topicLog[j] : topicLog[j][k].at <= worker[j].index_at + 1
        /\ \A i \in CompleteAt(j) :
              worker[j].index_at > 0 /\ i = worker[j].index_at + 1
        /\ worker[j].index_at = -1 =>
              /\ CompleteAt(j) = {}
              /\ worker[j].pc \in {"except", "except_registry", "done"}
              /\ worker[j].pc \in {"except_registry", "done"} =>
                    Last(stream[j]) = [job_id |-> j, status |-> "error", error |-> "OSError"]
              /\ (worker[j].pc = "done" /\ j \in DOMAIN jobs) => jobs[j].status = "error"

\* C22 witness: one job has put its complete snapshot after writing the
\* index for its finished topic, another has ended in error because its
\* index write failed
C22_Witness ==
    \E j, k \in JobIds :
        /\ worker[j].pc = "done" /\ CompleteAt(j) # {} /\ Len(topicLog[j]) = 1
        /\ disk[j].index
        /\ worker[k].pc = "done" /\ worker[k].index_at = -1 /\ Len(topicLog[k]) = 1
        /\ ~disk[k].index

\* the snapshots among the events a progress query has delivered
SnapshotsSent(ob) == SelectSeq(ob.sent, IsSnapshot)

\* C23: once cleanup has discarded a job's registry entry, no progress query
\* for that job is delivered a further snapshot, whether it is opened
\* afterwards or was streaming when cleanup ran.
C23_NoSnapshotAfterCleanup ==
    [][\A o \in Observers :
          Cleaned(observer'[o].job) => SnapshotsSent(observer'[o]) = SnapshotsSent(observer[o])]_vars

\* a step in which the progress query o is sent a heartbeat
HeartbeatSent(o) == observer'[o].beats > observer[o].beats

\* the heartbeat step: the queue was empty, the query goes on reading, and
\* neither the delivered events nor the queue change
HeartbeatOnlyOnEmpty ==
    \A o \in Observers :
        HeartbeatSent(o) =>
            /\ observer[o].pc = "streaming"
            /\ queue[observer[o].job] = <<>>
            /\ observer'[o].pc = "streaming"
            /\ observer'[o].last = Heartbeat
            /\ observer'[o].sent = observer[o].sent
            /\ queue' = queue

\* a query that has been sent heartbeats has been delivered, with what is
\* still queued, exactly the job's events in the order they were put
HeartbeatKeepsStream ==
    \A o \in Observers :
        (observer[o].beats > 0 /\ SameQueue(o) = {o}) =>
            /\ observer[o].sent \o queue[observer[o].job] = stream[observer[o].job]
            /\ Heartbeat \notin Range(observer[o].sent)
            /\ observer[o].pc = "closed" =>
                  (observer[o].sent # <<>> /\ EndsJob(Last(observer[o].sent)))

\* C24: a progress query whose read of the queue times out is sent a
\* heartbeat and keeps reading: the heartbeat is sent only when the queue
\* was empty, it does not end the stream, and it does not drop, duplicate or
\* reorder the job's snapshots.
C24_HeartbeatOnTimeout == [] HeartbeatKeepsStream /\ [][HeartbeatOnlyOnEmpty]_vars

\* C24 witness: a query was sent a heartbeat, went on reading and ended on
\* the terminal event having been delivered the whole stream in order
C24_Witness ==
    \E o \in Observers :
        /\ observer[o].beats > 0
        /\ observer[o].pc = "closed"
        /\ Len(observer[o].sent) >= 4
        /\ observer[o].sent = stream[observer[o].job]

\* the candidate containers of a page that yield a qualifying paragraph
Yielding(page) == {i \in DOMAIN page : page[i].found /\ Qualifying(page[i].paragraphs) # <<>>}

\* C25: the NASA adapter uses the first candidate container that yields a
\* qualifying paragraph: when some container of the fetched page has one, the
\* result is the Document built from the first such container, and the
\* result is absent only when no container has one.
C25_FirstYieldingContainer ==
    parse.pc = "parsed_nasa" =>
        IF Yielding(parse.page) = {}
        THEN parse.document = None
        ELSE LET first == CHOOSE i \in Yielding(parse.page) :
                              \A k \in Yielding(parse.page) : i <= k
             IN parse.document =
                   Document("NASA", <<[heading |-> "NASA Overview",
                                       content |-> Qualifying(parse.page[first].paragraphs)]>>)

\* the positions of the terminal events on the stream of job j
TerminalAt(j) == {i \in DOMAIN stream[j] : EndsJob(stream[j][i])}

\* a job has at most one terminal event, nothing follows it, and a worker
\* that has ended has put one
OneTerminalLast ==
    \A j \in JobIds :
        /\ Cardinality(TerminalAt(j)) <= 1
        /\ TerminalAt(j) \subseteq {Len(stream[j])}
        /\ TerminalAt(j) # {} => worker[j].pc \in {"registry", "except_registry", "done"}
        /\ worker[j].pc = "done" => TerminalAt(j) # {}

\* C26: every started worker eventually puts exactly one terminal event
\* (status complete or error) on its job's queue and puts nothing after it,
\* given that each of its steps returns or raises.
C26_WorkerTerminates ==
    /\ [] OneTerminalLast
    /\ \A j \in JobIds : (worker[j].pc # "none") ~> (worker[j].pc = "done")

\* C26 witness: one worker has ended on the complete snapshot and another
\* on the error event, each the last event of its stream
C26_Witness ==
    \E j, k \in JobIds :
        /\ worker[j].pc = "done" /\ Last(stream[j]).status = "complete"
        /\ worker[k].pc = "done" /\ Last(stream[k]).status = "error"
        /\ Len(stream[j]) >= 4

\* C27: whenever a complete snapshot is on a job's stream the job's entry
\* in the job table has status complete, so the download requested by a
\* client that has just been delivered the complete snapshot is never
\* rejected as 'Job not complete'.
C27_CompleteMeansDownloadable ==
    /\ \A j \in JobIds :
          CompleteAt(j) # {} => (j \in DOMAIN jobs /\ jobs[j].status = "complete")
    /\ response.route = "download" => response.code # 400

\* C28: every progress query opened for a registered job whose worker
\* terminates is eventually delivered a snapshot with status complete or
\* error and then ends, also when two queries are open on the job or when a
\* query is opened after another one has read the terminal snapshot.
C28_EveryQueryEnds ==
    \A o \in Readers :
        (observer[o].pc = "streaming")
            ~> (observer[o].pc = "closed" /\ EndsJob(observer[o].last))

\* a step in which cleanup_job discards the entry of job j
CleanupOf(j) == j \in DOMAIN jobs /\ j \notin DOMAIN jobs'

\* C29: cleanup of a job whose worker has ended removes the job's output
\* directory and its artifacts whatever the final status, error as well as
\* complete.
C29_CleanupRemovesOutput ==
    [][\A j \in JobIds :
          (CleanupOf(j) /\ worker[j].pc = "done") =>
              (~disk'[j].exists /\ disk'[j].files = {})]_vars

\* C30: the paths in a job's artifact list are pairwise distinct and each
\* names a file of its own, so at completion files_count and the manifest's
\* total_files equal the number of artifact files in the output directory,
\* also for a topic listed twice and for names that differ only in spaces,
\* underscores or characters the filename sanitizer replaces.
C30_ArtifactPathsDistinct ==
    \A j \in JobIds :
        LET files == worker[j].progress.files
        IN /\ \A a, b \in DOMAIN files : a # b => files[a] # files[b]
           /\ CompleteAt(j) # {} =>
                 /\ Last(stream[j]).files_count = Cardinality(disk[j].files)
                 /\ disk[j].manifest.total_files = Cardinality(disk[j].files)

====
